---- MODULE Spec2Model ----
(***************************************************************************)
(* Model of the migration engine of src/src/migration/migration.ts:        *)
(* MigrationModule with its four public operations, the table and lock-row *)
(* bootstrap, the locked run and the up/down executors, run by several     *)
(* processes against one database.                                         *)
(*                                                                         *)
(* Migration names are the integers 1..MaxName; their numeric order stands *)
(* for the alphabetical order of the names.  Indices into the migration    *)
(* list are 0-based as in the source; the TLA+ sequence element of index i *)
(* is migrations[i + 1].                                                   *)
(***************************************************************************)
EXTENDS Integers, Sequences, FiniteSets, TLC

\* Size of the universe of migration names.
MaxName == 3

\* Number of migrations of the record the concurrent callers share.
MaxSharedName == 2

Names == 1..MaxName

\* The processes that call the public operations concurrently.
Procs == {"p1", "p2"}

\* export const NO_MIGRATIONS: a target that is no migration name.
NO_MIGRATIONS == 0

NoProc == "none"

VARIABLES
  supportsTransactionalDdl, \* adapter capability, fixed for a run of the model
  hasDown,                  \* names of the migrations that define down()
  sources,                  \* the migration records callers pass (sets of names)
  callers,                  \* the processes that call public operations
  targets,                  \* the targets callers pass to migrateTo
  keepsResult,              \* whether callers keep the returned result set
  tableExists,              \* kysely_migration exists
  lockTableExists,          \* kysely_migration_lock exists
  lockRows,                 \* number of rows with id = MIGRATION_LOCK_ID
  ledger,                   \* committed rows of kysely_migration (names)
  schema,                   \* migrations whose forward change is in the database
  lockHolder,               \* process holding the adapter's migration lock
  pc,                       \* position of each process in its call
  op,                       \* the public operation each process is running
  migrations,               \* state.migrations of the run (sorted names)
  executed,                 \* executedMigrations read by #getState
  currentIndex,             \* state.currentIndex
  results,                  \* the results array of #migrateUp / #migrateDown
  idx,                      \* loop variable i of the executing loop
  comp,                     \* how `run` completes: return value or thrown error
  out,                      \* what the public operation gave its caller
  invoked,                  \* names whose up/down was invoked in this call
  applied,                  \* names whose up/down completed in this call
  wrote,                    \* names whose ledger row this call inserted/deleted
  acquired,                 \* acquireMigrationLock completed in this call
  relCalled                 \* releaseMigrationLock was called in this call

dbVars == <<tableExists, lockTableExists, lockRows, ledger, schema, lockHolder>>
runVars == <<migrations, executed, currentIndex, results, idx>>
histVars == <<invoked, applied, wrote, acquired, relCalled>>
cfgVars == <<supportsTransactionalDdl, hasDown, sources, callers, targets, keepsResult>>
vars == <<cfgVars, dbVars, pc, op, runVars, comp, out, histVars>>

----------------------------------------------------------------------------
(* Pure helpers                                                            *)

Min(a, b) == IF a < b THEN a ELSE b
Max(a, b) == IF a > b THEN a ELSE b

SetMin(S) == CHOOSE x \in S : \A y \in S : x <= y

RECURSIVE SortSet(_)
\* Object.keys(allMigrations).sort() and `orderBy('name')`: the names of a
\* set in ascending order.
SortSet(S) == IF S = {} THEN <<>> ELSE <<SetMin(S)>> \o SortSet(S \ {SetMin(S)})

Range(s) == {s[i] : i \in 1..Len(s)}

\* Array.prototype.findIndex((it) => it.name === name): 0-based, -1 if absent.
FindIndex(migs, name) ==
  IF \E i \in 1..Len(migs) : migs[i] = name
  THEN (CHOOSE i \in 1..Len(migs) :
          migs[i] = name /\ \A j \in 1..(i - 1) : migs[j] # name) - 1
  ELSE -1

\* #getState that never looks the last executed migration up.
CurrentIndexNeverFound(migs, exec) == -1

\* The index of getLast(executedMigrations) in migrations; getLast of an
\* empty array is undefined, which equals no name.
CurrentIndexOf(migs, exec) ==
  IF Len(exec) = 0 THEN -1 ELSE FindIndex(migs, exec[Len(exec)])

\* #ensureMigrationsNotCorrupted without its second loop.
EnsureOnlyNoneMissing(migs, exec) ==
  IF \E i \in 1..Len(exec) : exec[i] \notin Range(migs)
  THEN "corrupted"
  ELSE "ok"

\* #ensureMigrationsNotCorrupted: "ok", or the error it throws.
EnsureMigrationsNotCorrupted(migs, exec) ==
  IF \E i \in 1..Len(exec) : exec[i] \notin Range(migs)
  THEN "corrupted"
  ELSE IF \E i \in 1..Len(exec) : i > Len(migs) \/ migs[i] # exec[i]
       THEN "corrupted"
       ELSE "ok"

\* The getTargetMigration callbacks of the four public operations.  Each
\* gives [throws, index]; migrateTo throws for a name that is not resolved.
MigrateToLatestTarget(migs, cur) ==
  [throws |-> FALSE, index |-> Len(migs) - 1]

\* migrateTo without the check of the findIndex result.
MigrateToTargetUnchecked(migs, cur, targetMigrationName) ==
  IF targetMigrationName = NO_MIGRATIONS
  THEN [throws |-> FALSE, index |-> -1]
  ELSE [throws |-> FALSE, index |-> FindIndex(migs, targetMigrationName)]

MigrateToTarget(migs, cur, targetMigrationName) ==
  IF targetMigrationName = NO_MIGRATIONS
  THEN [throws |-> FALSE, index |-> -1]
  ELSE IF FindIndex(migs, targetMigrationName) = -1
       THEN [throws |-> TRUE, index |-> -1]
       ELSE [throws |-> FALSE, index |-> FindIndex(migs, targetMigrationName)]

\* migrateUp with the target of migrateToLatest.
MigrateUpToLast(migs, cur) ==
  [throws |-> FALSE, index |-> Len(migs) - 1]

MigrateUpTarget(migs, cur) ==
  [throws |-> FALSE, index |-> Min(cur + 1, Len(migs) - 1)]

MigrateDownTarget(migs, cur) ==
  [throws |-> FALSE, index |-> Max(cur - 1, -1)]

\* The public operations a caller can start: the kind and, for migrateTo,
\* the target (a name or NO_MIGRATIONS).
Ops(tgts) ==
  {[kind |-> k, target |-> NO_MIGRATIONS] : k \in {"latest", "up", "down"}}
    \cup {[kind |-> "to", target |-> t] : t \in tgts}

NoOp == [kind |-> "none", target |-> NO_MIGRATIONS]

GetTargetMigration(o, migs, cur) ==
  CASE o.kind = "latest" -> MigrateToLatestTarget(migs, cur)
    [] o.kind = "to" -> MigrateToTarget(migs, cur, o.target)
    [] o.kind = "up" -> MigrateUpTarget(migs, cur)
    [] OTHER -> MigrateDownTarget(migs, cur)

\* One MigrationResult.
Result(name, dir, st) == [migrationName |-> name, direction |-> dir, status |-> st]

\* First loop of #migrateDown counting upwards from targetIndex + 1.
PlanDownAscending(migs, cur, target) ==
  [n \in 1..(cur - target) |-> Result(migs[(target + n) + 1], "Down", "NotExecuted")]

\* First loop of #migrateDown ending at targetIndex + 2.
PlanDownKeepsLast(migs, cur, target) ==
  [n \in 1..(cur - target - 1) |-> Result(migs[(cur - (n - 1)) + 1], "Down", "NotExecuted")]

\* First loop of #migrateDown: indices currentIndex down to targetIndex + 1.
PlanDown(migs, cur, target) ==
  [n \in 1..(cur - target) |-> Result(migs[(cur - (n - 1)) + 1], "Down", "NotExecuted")]

\* First loop of #migrateUp starting one index too far.
PlanUpSkipsFirst(migs, cur, target) ==
  [n \in 1..(target - cur - 1) |-> Result(migs[(cur + n + 1) + 1], "Up", "NotExecuted")]

\* First loop of #migrateUp: indices currentIndex + 1 up to targetIndex.
PlanUp(migs, cur, target) ==
  [n \in 1..(target - cur) |-> Result(migs[(cur + n) + 1], "Up", "NotExecuted")]

\* The result sets and the ways `run` can complete.
NoResultSet == [error |-> "none", hasResults |-> FALSE, results |-> <<>>]
ResultsOnly(res) == [error |-> "none", hasResults |-> TRUE, results |-> res]
ErrorOnly(e) == [error |-> e, hasResults |-> FALSE, results |-> <<>>]
ErrorAndResults(e, res) == [error |-> e, hasResults |-> TRUE, results |-> res]

Pending == [kind |-> "pending", rs |-> NoResultSet]
Return(rs) == [kind |-> "return", rs |-> rs]
Throw(e) == [kind |-> "throw", rs |-> ErrorOnly(e)]
\* throw new MigrationResultSetError({ error, results })
ThrowResultSetError(e, res) == [kind |-> "throwRSE", rs |-> ErrorAndResults(e, res)]

NoOut == [status |-> "none", rs |-> NoResultSet]

\* The caller's variable after `const rs = await db.migration.migrateX(...)`,
\* or nothing when the caller only awaits the call.
Given(o) == IF keepsResult THEN o ELSE NoOut

\* #migrate with a catch that handles MigrationResultSetError only and
\* rethrows every other error.
MigrateCatchRethrows(c) ==
  IF c.kind = "return"
  THEN [status |-> "returned", rs |-> c.rs]
  ELSE IF c.kind = "throwRSE"
       THEN [status |-> "returned", rs |-> c.rs]
       ELSE [status |-> "raised", rs |-> NoResultSet]

\* try/catch of #migrate: what the caller gets for a completion of the body.
MigrateCatch(c) ==
  IF c.kind = "return"
  THEN [status |-> "returned", rs |-> c.rs]
  ELSE IF c.kind = "throwRSE"
       THEN [status |-> "returned", rs |-> c.rs]
       ELSE [status |-> "returned", rs |-> ErrorOnly(c.rs.error)]

RECURSIVE NextDownIndex(_, _, _)
\* Second loop of #migrateDown between two awaits: a planned migration
\* without down() is passed over in the same turn (its slot stays as planned).
NextDownIndex(res, i, downs) ==
  IF i >= Len(res) THEN Len(res)
  ELSE IF res[i + 1].migrationName \in downs THEN i
       ELSE NextDownIndex(res, i + 1, downs)

\* The executing loop of #migrateDown without `if (migration.down)`.
NextIndexNoSkip(res, i, downs) == Min(i, Len(res))

\* The loop index at which the executing loop next awaits an action, or
\* Len(res) when the loop is over.
NextIndex(res, i, downs) ==
  IF Len(res) > 0 /\ res[1].direction = "Down"
  THEN NextDownIndex(res, i, downs)
  ELSE Min(i, Len(res))

\* The ledger and the schema with the changes `names` of direction `dir`.
ApplyChanges(S, dir, names) == IF dir = "Up" THEN S \cup names ELSE S \ names

DirOf(res) == IF Len(res) > 0 THEN res[1].direction ELSE "Up"

\* #runMigrations that always takes the connection().execute branch.
NeverTransaction == FALSE

\* #runMigrations: `if (this.#adapter.supportsTransactionalDdl)` chooses
\* db.transaction().execute(run) over db.connection().execute(run).
UseTransaction == supportsTransactionalDdl

\* A ledger query that is built and never executed.
LedgerWriteUnexecuted(dir, m) == ledger

\* The committed ledger after insertInto(...).execute() (Up) or
\* deleteFrom(...).execute() (Down) of the row of m: unchanged inside a
\* transaction, whose rows are committed at its end.
LedgerWrite(dir, m) ==
  IF UseTransaction THEN ledger ELSE ApplyChanges(ledger, dir, {m})

\* What the connection of process p reads from kysely_migration: inside a
\* transaction its own uncommitted rows are visible.
LedgerView(p) ==
  IF UseTransaction
  THEN ApplyChanges(ledger, DirOf(results[p]), wrote[p])
  ELSE ledger

----------------------------------------------------------------------------
(* Initial state: an empty database, no call running.                      *)

InitDatabase ==
  /\ tableExists = FALSE
  /\ lockTableExists = FALSE
  /\ lockRows = 0
  /\ ledger = {}
  /\ schema = {}
  /\ lockHolder = NoProc
  /\ pc = [p \in Procs |-> "idle"]
  /\ op = [p \in Procs |-> NoOp]
  /\ migrations = [p \in Procs |-> <<>>]
  /\ executed = [p \in Procs |-> <<>>]
  /\ currentIndex = [p \in Procs |-> -1]
  /\ results = [p \in Procs |-> <<>>]
  /\ idx = [p \in Procs |-> 0]
  /\ comp = [p \in Procs |-> Pending]
  /\ out = [p \in Procs |-> NoOut]
  /\ invoked = [p \in Procs |-> {}]
  /\ applied = [p \in Procs |-> {}]
  /\ wrote = [p \in Procs |-> {}]
  /\ acquired = [p \in Procs |-> FALSE]
  /\ relCalled = [p \in Procs |-> FALSE]

\* One caller at a time, with any migration record in each call.
Init ==
  /\ supportsTransactionalDdl \in BOOLEAN
  /\ hasDown \in SUBSET Names
  /\ sources = SUBSET Names
  /\ callers = {"p1"}
  /\ targets = Names \cup {NO_MIGRATIONS}
  /\ keepsResult = TRUE
  /\ InitDatabase

\* Several processes calling concurrently, all with the same migration record.
InitConcurrent ==
  /\ supportsTransactionalDdl \in BOOLEAN
  /\ hasDown = Names
  /\ sources = {1..MaxSharedName}
  /\ callers = Procs
  /\ targets = {NO_MIGRATIONS}
  /\ keepsResult = FALSE
  /\ InitDatabase

\* Several processes calling concurrently with the same record of one
\* migration, each caller keeping the result set it is given.
InitBootstrap ==
  /\ supportsTransactionalDdl \in BOOLEAN
  /\ hasDown = Names
  /\ sources = {{1}}
  /\ callers = Procs
  /\ targets = {NO_MIGRATIONS}
  /\ keepsResult = TRUE
  /\ InitDatabase

----------------------------------------------------------------------------
(* The public operations and #migrate                                      *)

\* A caller starts migrateToLatest, migrateTo, migrateUp or migrateDown:
\* #migrate enters its try block.
Call(p) ==
  /\ p \in callers
  /\ pc[p] = "idle"
  /\ \E o \in Ops(targets) : op' = [op EXCEPT ![p] = o]
  /\ pc' = [pc EXCEPT ![p] = "chkTable"]
  /\ out' = [out EXCEPT ![p] = NoOut]
  /\ UNCHANGED <<cfgVars, dbVars, runVars, comp, histVars>>

\* An error thrown outside `run` reaches the catch of #migrate at once.
ThrowToCaller(p, e) ==
  /\ pc' = [pc EXCEPT ![p] = "idle"]
  /\ op' = [op EXCEPT ![p] = NoOp]
  /\ out' = [out EXCEPT ![p] = Given(MigrateCatch(Throw(e)))]
  /\ UNCHANGED comp

Goto(p, l) ==
  /\ pc' = [pc EXCEPT ![p] = l]
  /\ UNCHANGED <<comp, out, op>>

----------------------------------------------------------------------------
(* #ensureMigrationTablesExists: one step per awaited database call        *)

\* #ensureMigrationTableExists, first #doesTableExists(MIGRATION_TABLE).
CheckMigrationTable(p) ==
  /\ pc[p] = "chkTable"
  /\ \/ ThrowToCaller(p, "introspection")
     \/ Goto(p, IF tableExists THEN "chkLockTable" ELSE "crtTable")
  /\ UNCHANGED <<cfgVars, dbVars, runVars, histVars>>

\* createTable(MIGRATION_TABLE).ifNotExists(): it creates the table, or
\* throws; with concurrent creators it can throw although the table exists.
CreateMigrationTable(p) ==
  /\ pc[p] = "crtTable"
  /\ \/ /\ tableExists' = TRUE
        /\ Goto(p, "chkLockTable")
     \/ /\ UNCHANGED tableExists
        /\ Goto(p, "rechkTable")
  /\ UNCHANGED <<cfgVars, lockTableExists, lockRows, ledger, schema, lockHolder,
                 runVars, histVars>>

\* A catch block that rethrows the creation error without looking again.
RethrowCreationError(p) ==
  /\ pc[p] = "rechkTable"
  /\ ThrowToCaller(p, "createTable")
  /\ UNCHANGED <<cfgVars, dbVars, runVars, histVars>>

\* The catch block: the creation error is swallowed only if the table exists.
RecheckMigrationTable(p) ==
  /\ pc[p] = "rechkTable"
  /\ \/ ThrowToCaller(p, "introspection")
     \/ /\ tableExists
        /\ Goto(p, "chkLockTable")
     \/ /\ ~tableExists
        /\ ThrowToCaller(p, "createTable")
  /\ UNCHANGED <<cfgVars, dbVars, runVars, histVars>>

\* #ensureMigrationLockTableExists, first #doesTableExists(MIGRATION_LOCK_TABLE).
CheckLockTable(p) ==
  /\ pc[p] = "chkLockTable"
  /\ \/ ThrowToCaller(p, "introspection")
     \/ Goto(p, IF lockTableExists THEN "chkRow" ELSE "crtLockTable")
  /\ UNCHANGED <<cfgVars, dbVars, runVars, histVars>>

CreateLockTable(p) ==
  /\ pc[p] = "crtLockTable"
  /\ \/ /\ lockTableExists' = TRUE
        /\ Goto(p, "chkRow")
     \/ /\ UNCHANGED lockTableExists
        /\ Goto(p, "rechkLockTable")
  /\ UNCHANGED <<cfgVars, tableExists, lockRows, ledger, schema, lockHolder,
                 runVars, histVars>>

RecheckLockTable(p) ==
  /\ pc[p] = "rechkLockTable"
  /\ \/ ThrowToCaller(p, "introspection")
     \/ /\ lockTableExists
        /\ Goto(p, "chkRow")
     \/ /\ ~lockTableExists
        /\ ThrowToCaller(p, "createLockTable")
  /\ UNCHANGED <<cfgVars, dbVars, runVars, histVars>>

\* #ensureLockRowExists, first #doesLockRowExists.
CheckLockRow(p) ==
  /\ pc[p] = "chkRow"
  /\ \/ ThrowToCaller(p, "selectLockRow")
     \/ Goto(p, IF lockRows > 0 THEN "begin" ELSE "insRow")
  /\ UNCHANGED <<cfgVars, dbVars, runVars, histVars>>

\* insertInto(MIGRATION_LOCK_TABLE).values({ id: MIGRATION_LOCK_ID }): the
\* primary key on id makes the insert of a second row fail.
InsertLockRow(p) ==
  /\ pc[p] = "insRow"
  /\ \/ /\ lockRows = 0
        /\ lockRows' = lockRows + 1
        /\ Goto(p, "begin")
     \/ /\ UNCHANGED lockRows
        /\ Goto(p, "rechkRow")
  /\ UNCHANGED <<cfgVars, tableExists, lockTableExists, ledger, schema, lockHolder,
                 runVars, histVars>>

RecheckLockRow(p) ==
  /\ pc[p] = "rechkRow"
  /\ \/ ThrowToCaller(p, "selectLockRow")
     \/ /\ lockRows > 0
        /\ Goto(p, "begin")
     \/ /\ lockRows = 0
        /\ ThrowToCaller(p, "insertLockRow")
  /\ UNCHANGED <<cfgVars, dbVars, runVars, histVars>>

----------------------------------------------------------------------------
(* The adapter's lock and the execution context                            *)

\* acquireMigrationLock of the adapter: grants the lock to one holder.
AdapterAcquire(p) ==
  /\ lockHolder = NoProc
  /\ lockHolder' = p

\* releaseMigrationLock of the adapter: frees a session lock held by the
\* caller; a transaction-scoped lock stays until the transaction ends.
AdapterRelease(p) ==
  lockHolder' = IF lockHolder = p /\ ~UseTransaction THEN NoProc ELSE lockHolder

\* The end of the transaction or of the reserved connection frees whatever
\* lock the connection still holds.
ContextRelease(p) ==
  lockHolder' = IF lockHolder = p THEN NoProc ELSE lockHolder

\* `run` completes with c: the finally block is next.
Finally(p, c) ==
  /\ pc' = [pc EXCEPT ![p] = "release"]
  /\ comp' = [comp EXCEPT ![p] = c]
  /\ UNCHANGED <<out, op>>

----------------------------------------------------------------------------
(* #runMigrations                                                          *)

\* db.transaction().execute(run) or db.connection().execute(run) gets its
\* connection (and begins the transaction), or fails before `run` starts.
BeginExecution(p) ==
  /\ pc[p] = "begin"
  /\ \/ ThrowToCaller(p, "connection")
     \/ Goto(p, "acquire")
  /\ UNCHANGED <<cfgVars, dbVars, runVars, histVars>>

\* run without the call of acquireMigrationLock.
EnterWithoutLock(p) ==
  /\ pc[p] = "acquire"
  /\ acquired' = [acquired EXCEPT ![p] = TRUE]
  /\ Goto(p, "getState")
  /\ UNCHANGED <<cfgVars, dbVars, runVars, invoked, applied, wrote, relCalled>>

\* run with a rejected acquireMigrationLock caught and ignored.
AcquireSwallowsFailure(p) ==
  /\ pc[p] = "acquire"
  /\ \/ AdapterAcquire(p)
     \/ UNCHANGED lockHolder
  /\ acquired' = [acquired EXCEPT ![p] = TRUE]
  /\ Goto(p, "getState")
  /\ UNCHANGED <<cfgVars, tableExists, lockTableExists, lockRows, ledger, schema,
                 runVars, invoked, applied, wrote, relCalled>>

\* run: `await this.#adapter.acquireMigrationLock(db)` inside the try.
AcquireMigrationLock(p) ==
  /\ pc[p] = "acquire"
  /\ \/ /\ AdapterAcquire(p)
        /\ acquired' = [acquired EXCEPT ![p] = TRUE]
        /\ Goto(p, "getState")
     \/ /\ UNCHANGED <<lockHolder, acquired>>
        /\ Finally(p, Throw("acquireLock"))
  /\ UNCHANGED <<cfgVars, tableExists, lockTableExists, lockRows, ledger, schema,
                 runVars, invoked, applied, wrote, relCalled>>

\* #getState: resolve the migrations, read the executed ones in name order,
\* check them, compute currentIndex.
GetState(p) ==
  /\ pc[p] = "getState"
  /\ \/ /\ Finally(p, Throw("resolveMigrations"))
        /\ UNCHANGED <<migrations, executed, currentIndex>>
     \/ /\ Finally(p, Throw("selectExecuted"))
        /\ UNCHANGED <<migrations, executed, currentIndex>>
     \/ \E M \in sources :
          LET migs == SortSet(M)
              exec == SortSet(LedgerView(p))
          IN /\ migrations' = [migrations EXCEPT ![p] = migs]
             /\ executed' = [executed EXCEPT ![p] = exec]
             /\ IF EnsureMigrationsNotCorrupted(migs, exec) = "ok"
                THEN /\ currentIndex' =
                          [currentIndex EXCEPT ![p] = CurrentIndexOf(migs, exec)]
                     /\ Goto(p, "plan")
                ELSE /\ UNCHANGED currentIndex
                     /\ Finally(p, Throw("corrupted"))
  /\ UNCHANGED <<cfgVars, dbVars, results, idx, histVars>>

\* What `run` does between #getState and its first awaited action: the
\* early returns, the target, the direction and the planned results.
PlanOutcome(o, migs, cur, downs) ==
  LET t == GetTargetMigration(o, migs, cur)
      res == IF t.index < cur THEN PlanDown(migs, cur, t.index)
             ELSE PlanUp(migs, cur, t.index)
  IN IF Len(migs) = 0 THEN [comp |-> Return(ResultsOnly(<<>>)), results |-> <<>>, idx |-> 0]
     ELSE IF t.throws THEN [comp |-> Throw("targetMissing"), results |-> <<>>, idx |-> 0]
     ELSE IF t.index = cur THEN [comp |-> Return(ResultsOnly(<<>>)), results |-> <<>>, idx |-> 0]
     ELSE IF NextIndex(res, 0, downs) >= Len(res)
          THEN [comp |-> Return(ResultsOnly(res)), results |-> res, idx |-> Len(res)]
          ELSE [comp |-> Pending, results |-> res, idx |-> NextIndex(res, 0, downs)]

Plan(p) ==
  /\ pc[p] = "plan"
  /\ LET po == PlanOutcome(op[p], migrations[p], currentIndex[p], hasDown)
     IN /\ results' = [results EXCEPT ![p] = po.results]
        /\ idx' = [idx EXCEPT ![p] = po.idx]
        /\ IF po.comp.kind = "pending"
           THEN Goto(p, "action")
           ELSE Finally(p, po.comp)
  /\ UNCHANGED <<cfgVars, dbVars, migrations, executed, currentIndex, histVars>>

----------------------------------------------------------------------------
(* #migrateUp and #migrateDown: the executing loop                         *)

SetStatus(res, i, st) == [res EXCEPT ![i + 1].status = st]

\* `await migration.up(db)` or `await migration.down(db)` of results[i].
InvokeMigration(p) ==
  /\ pc[p] = "action"
  /\ LET m == results[p][idx[p] + 1].migrationName
         dir == results[p][idx[p] + 1].direction
     IN /\ invoked' = [invoked EXCEPT ![p] = @ \cup {m}]
        /\ \/ /\ applied' = [applied EXCEPT ![p] = @ \cup {m}]
              /\ schema' = IF UseTransaction THEN schema
                           ELSE ApplyChanges(schema, dir, {m})
              /\ UNCHANGED results
              /\ Goto(p, "write")
           \/ /\ UNCHANGED <<applied, schema>>
              /\ results' = [results EXCEPT ![p] = SetStatus(@, idx[p], "Error")]
              /\ Finally(p, ThrowResultSetError("action", results'[p]))
  /\ UNCHANGED <<cfgVars, tableExists, lockTableExists, lockRows, ledger, lockHolder,
                 migrations, executed, currentIndex, idx, wrote, acquired,
                 relCalled>>

\* The insertInto(MIGRATION_TABLE) of #migrateUp or the
\* deleteFrom(MIGRATION_TABLE) of #migrateDown, then the Success mark and
\* the loop's progress to its next await or to `return { results }`.
WriteLedger(p) ==
  /\ pc[p] = "write"
  /\ LET m == results[p][idx[p] + 1].migrationName
         dir == results[p][idx[p] + 1].direction
     IN \/ /\ dir = "Up" => m \notin LedgerView(p)
           /\ wrote' = [wrote EXCEPT ![p] = @ \cup {m}]
           /\ ledger' = LedgerWrite(dir, m)
           /\ results' = [results EXCEPT ![p] = SetStatus(@, idx[p], "Success")]
           /\ idx' = [idx EXCEPT ![p] = NextIndex(results'[p], idx[p] + 1, hasDown)]
           /\ IF idx'[p] >= Len(results'[p])
              THEN Finally(p, Return(ResultsOnly(results'[p])))
              ELSE Goto(p, "action")
        \/ /\ UNCHANGED <<wrote, ledger, idx>>
           /\ results' = [results EXCEPT ![p] = SetStatus(@, idx[p], "Error")]
           /\ Finally(p, ThrowResultSetError("ledgerWrite", results'[p]))
  /\ UNCHANGED <<cfgVars, tableExists, lockTableExists, lockRows, schema, lockHolder,
                 migrations, executed, currentIndex, invoked, applied, acquired,
                 relCalled>>

----------------------------------------------------------------------------
(* Leaving `run`                                                           *)

\* run with the release as the last statement of the try block instead of
\* a finally block: a thrown error skips it.
ReleaseOnlyOnReturn(p) ==
  /\ pc[p] = "release"
  /\ pc' = [pc EXCEPT ![p] = "end"]
  /\ IF comp[p].kind = "return"
     THEN /\ relCalled' = [relCalled EXCEPT ![p] = TRUE]
          /\ AdapterRelease(p)
     ELSE UNCHANGED <<relCalled, lockHolder>>
  /\ UNCHANGED <<cfgVars, tableExists, lockTableExists, lockRows, ledger, schema,
                 op, runVars, comp, out, invoked, applied, wrote, acquired>>

\* finally { await this.#adapter.releaseMigrationLock(db) }: runs however
\* the try block completed; an error it throws replaces that completion.
ReleaseMigrationLock(p) ==
  /\ pc[p] = "release"
  /\ relCalled' = [relCalled EXCEPT ![p] = TRUE]
  /\ pc' = [pc EXCEPT ![p] = "end"]
  /\ \/ /\ AdapterRelease(p)
        /\ UNCHANGED comp
     \/ /\ UNCHANGED lockHolder
        /\ comp' = [comp EXCEPT ![p] = Throw("releaseLock")]
  /\ UNCHANGED <<cfgVars, tableExists, lockTableExists, lockRows, ledger, schema,
                 op, runVars, out, invoked, applied, wrote, acquired>>

\* The locals of a finished call are gone.
ForgetRun(p) ==
  /\ op' = [op EXCEPT ![p] = NoOp]
  /\ migrations' = [migrations EXCEPT ![p] = <<>>]
  /\ executed' = [executed EXCEPT ![p] = <<>>]
  /\ currentIndex' = [currentIndex EXCEPT ![p] = -1]
  /\ results' = [results EXCEPT ![p] = <<>>]
  /\ idx' = [idx EXCEPT ![p] = 0]
  /\ comp' = [comp EXCEPT ![p] = Pending]
  /\ invoked' = [invoked EXCEPT ![p] = {}]
  /\ applied' = [applied EXCEPT ![p] = {}]
  /\ wrote' = [wrote EXCEPT ![p] = {}]
  /\ acquired' = [acquired EXCEPT ![p] = FALSE]
  /\ relCalled' = [relCalled EXCEPT ![p] = FALSE]

\* The end of transaction().execute / connection().execute and the catch
\* of #migrate: commit when `run` returned, roll back when it threw; the
\* public operation then gives its caller a result set.
EndExecution(p) ==
  /\ pc[p] = "end"
  /\ pc' = [pc EXCEPT ![p] = "idle"]
  /\ ContextRelease(p)
  /\ ForgetRun(p)
  /\ \/ /\ UseTransaction /\ comp[p].kind = "return"
        /\ ledger' = ApplyChanges(ledger, DirOf(results[p]), wrote[p])
        /\ schema' = ApplyChanges(schema, DirOf(results[p]), applied[p])
        /\ out' = [out EXCEPT ![p] = Given(MigrateCatch(comp[p]))]
     \/ /\ UseTransaction /\ comp[p].kind = "return"
        /\ UNCHANGED <<ledger, schema>>
        /\ out' = [out EXCEPT ![p] = Given(MigrateCatch(Throw("commit")))]
     \/ /\ ~(UseTransaction /\ comp[p].kind = "return")
        /\ UNCHANGED <<ledger, schema>>
        /\ out' = [out EXCEPT ![p] = Given(MigrateCatch(comp[p]))]
  /\ UNCHANGED <<cfgVars, tableExists, lockTableExists, lockRows>>

----------------------------------------------------------------------------

Next ==
  \E p \in Procs :
    \/ Call(p)
    \/ CheckMigrationTable(p)
    \/ CreateMigrationTable(p)
    \/ RecheckMigrationTable(p)
    \/ CheckLockTable(p)
    \/ CreateLockTable(p)
    \/ RecheckLockTable(p)
    \/ CheckLockRow(p)
    \/ InsertLockRow(p)
    \/ RecheckLockRow(p)
    \/ BeginExecution(p)
    \/ AcquireMigrationLock(p)
    \/ GetState(p)
    \/ Plan(p)
    \/ InvokeMigration(p)
    \/ WriteLedger(p)
    \/ ReleaseMigrationLock(p)
    \/ EndExecution(p)

Spec == Init /\ [][Next]_vars

SpecConcurrent == InitConcurrent /\ [][Next]_vars

SpecBootstrap == InitBootstrap /\ [][Next]_vars

----------------------------------------------------------------------------
(* Properties                                                              *)

\* The step by which the public operation of p gives its caller a result.
Returns(p) == pc[p] # "idle" /\ pc'[p] = "idle"

\* exec is the beginning of migs.
IsPrefix(exec, migs) ==
  /\ Len(exec) <= Len(migs)
  /\ \A i \in 1..Len(exec) : exec[i] = migs[i]

\* C1: every public operation gives its caller a result set and never
\* raises, whichever step failed; a result set has an error or results.
C1_NeverRaises ==
  \A p \in Procs :
    /\ out[p].status \in {"none", "returned"}
    /\ out[p].status = "returned" =>
         (out[p].rs.error # "none" \/ out[p].rs.hasResults)

\* A call whose lock release failed in the finally block still returned.
C1_Witness ==
  \E p \in Procs :
    out[p].status = "returned" /\ out[p].rs.error = "releaseLock"

\* The locked region of `run`: after acquireMigrationLock completed and
\* until releaseMigrationLock is called.
InLockedRegion(p) ==
  acquired[p] /\ pc[p] \in {"getState", "plan", "action", "write", "release"}

\* C2: at most one run is inside the locked region at a time.
C2_MutualExclusion ==
  \A p, q \in Procs : InLockedRegion(p) /\ InLockedRegion(q) => p = q

\* One run executes a step while another waits for the lock.
C2_Witness ==
  \E p, q \in Procs :
    p # q /\ pc[p] = "write" /\ InLockedRegion(p) /\ pc[q] = "acquire"

\* C3: a run that acquired the lock has called releaseMigrationLock when it
\* leaves `run`, however the try block completed, and a process that is in
\* no call holds no lock.
C3_ReleaseOnEveryPath ==
  \A p \in Procs :
    /\ pc[p] = "end" => relCalled[p]
    /\ pc[p] = "idle" => lockHolder # p

\* A run whose step failed has acquired and released.
C3_Witness ==
  \E p \in Procs :
    pc[p] = "end" /\ acquired[p] /\ relCalled[p] /\ comp[p].kind = "throwRSE"

\* C4: a ledger that is not a prefix of the resolved migrations fails the
\* planning with the corruption error: the call returns an error without
\* results, invokes no action and leaves the ledger unchanged.
C4_CorruptionAbortsPlanning ==
  [][\A p \in Procs :
       /\ ~IsPrefix(executed'[p], migrations'[p]) =>
            /\ pc'[p] \in {"release", "end"}
            /\ pc'[p] = "release" => comp'[p] = Throw("corrupted")
            /\ comp'[p].kind = "throw"
            /\ results'[p] = <<>>
            /\ invoked'[p] = {} /\ applied'[p] = {} /\ wrote'[p] = {}
       /\ Returns(p) /\ ~IsPrefix(executed[p], migrations[p]) =>
            /\ out'[p].status = "returned"
            /\ out'[p].rs.error # "none"
            /\ ~out'[p].rs.hasResults
            /\ ledger' = ledger /\ ledger' = Range(executed[p])
            /\ schema' = schema]_vars

\* Planning has failed on a ledger whose second name is out of place.
C4_Witness ==
  \E p \in Procs :
    /\ pc[p] = "end"
    /\ migrations[p] = <<1, 2, 3>> /\ executed[p] = <<1, 3>>
    /\ comp[p] = Throw("corrupted")

HasError(res) == \E i \in 1..Len(res) : res[i].status = "Error"

ErrorPos(res) == CHOOSE i \in 1..Len(res) : res[i].status = "Error"

SuccessNames(res) ==
  {res[i].migrationName : i \in {j \in 1..Len(res) : res[j].status = "Success"}}

\* C5: when a planned step fails, the returned result set carries the
\* error and the whole planned list, the failing step Error, every later
\* one NotExecuted and never invoked.
C5_StepFailureReported ==
  [][\A p \in Procs :
       Returns(p) /\ HasError(results[p]) =>
         /\ out'[p].rs.error # "none"
         /\ out'[p].rs.hasResults
         /\ out'[p].rs.results = results[p]
         /\ \A j \in (ErrorPos(results[p]) + 1)..Len(results[p]) :
              /\ results[p][j].status = "NotExecuted"
              /\ results[p][j].migrationName \notin invoked[p]]_vars

\* The forward action of a planned step of migrateToLatest has failed, in
\* a call that planned several steps.
ForwardFailed(p) ==
  /\ op[p].kind = "latest"
  /\ Len(results[p]) >= 2
  /\ HasError(results[p])
  /\ results[p][ErrorPos(results[p])].migrationName \in invoked[p] \ applied[p]

\* C6 as stated: after a migrateToLatest with a failing forward action the
\* ledger holds what it held before plus the migrations marked Success.
C6_LedgerHoldsSuccesses ==
  [][\A p \in Procs :
       Returns(p) /\ ForwardFailed(p) =>
         ledger' = Range(executed[p]) \cup SuccessNames(results[p])]_vars

\* C6 amended: that holds without transactional DDL; with it the call is
\* rolled back and the ledger holds what it held before the call.
C6_LedgerAfterFailure ==
  [][\A p \in Procs :
       Returns(p) /\ ForwardFailed(p) =>
         ledger' = Range(executed[p]) \cup
                     (IF supportsTransactionalDdl THEN {}
                      ELSE SuccessNames(results[p]))]_vars

\* Without transactional DDL: a, b, c from an empty ledger, b failing,
\* leaves only a in the ledger.
C6_Witness ==
  \E p \in Procs :
    /\ ~supportsTransactionalDdl
    /\ pc[p] = "end" /\ op[p].kind = "latest"
    /\ executed[p] = <<>>
    /\ results[p] = <<Result(1, "Up", "Success"), Result(2, "Up", "Error"),
                      Result(3, "Up", "NotExecuted")>>
    /\ ledger = {1}

\* C7: with transactional DDL the ledger and the schema change only when a
\* call returns without error: a call that fails anywhere leaves both as
\* they were, whatever its results say.
C7_FailureRollsBack ==
  [][supportsTransactionalDdl =>
       \/ ledger' = ledger /\ schema' = schema
       \/ \E p \in Procs :
            /\ Returns(p)
            /\ comp[p].kind = "return"
            /\ out'[p].rs.error = "none"]_vars

\* A call reported a Success and then an Error, and nothing of it is in
\* the database.
C7_Witness ==
  \E p \in Procs :
    /\ supportsTransactionalDdl
    /\ out[p].rs.error = "action"
    /\ out[p].rs.results = <<Result(1, "Up", "Success"), Result(2, "Up", "Error")>>
    /\ ledger = {} /\ schema = {}

\* The step by which p invokes the forward action of m.
InvokesUp(p, m) ==
  /\ pc[p] = "action" /\ pc'[p] # "action"
  /\ results[p][idx[p] + 1].direction = "Up"
  /\ results[p][idx[p] + 1].migrationName = m

C9_ResultsAfterAction ==
  [][\A p \in Procs :
       Returns(p) /\ invoked[p] # {} => out'[p].rs.hasResults]_vars

\* The call of p is a migrateTo whose target is none of its migrations.
UnknownTarget(p) ==
  /\ op[p].kind = "to"
  /\ op[p].target # NO_MIGRATIONS
  /\ op[p].target \notin Range(migrations[p])

PlanningFailure(p) ==
  /\ out'[p].rs.error # "none"
  /\ ~out'[p].rs.hasResults
  /\ invoked[p] = {} /\ wrote[p] = {}
  /\ ledger' = ledger /\ schema' = schema

\* C10 as stated: migrateTo with an unknown target name returns an error
\* without results for a migration list of any length.
C10_UnknownTargetFails ==
  [][\A p \in Procs : Returns(p) /\ UnknownTarget(p) => PlanningFailure(p)]_vars

\* C10 amended: it does for every list that is not empty; with an empty
\* list `run` returns empty results before it looks at the target.
C10_UnknownTargetFailsNonEmpty ==
  [][\A p \in Procs :
       /\ Returns(p) /\ UnknownTarget(p) /\ Len(migrations[p]) > 0 =>
            PlanningFailure(p)
       /\ pc[p] = "plan" /\ pc'[p] # "plan" /\ UnknownTarget(p) =>
            comp'[p] = IF Len(migrations[p]) = 0
                       THEN Return(ResultsOnly(<<>>))
                       ELSE Throw("targetMissing")]_vars

\* migrateTo the third name with only two migrations resolved has failed
\* in planning.
C10_Witness ==
  \E p \in Procs :
    /\ pc[p] = "end"
    /\ op[p] = [kind |-> "to", target |-> 3]
    /\ migrations[p] = <<1, 2>> /\ executed[p] = <<1>>
    /\ comp[p] = Throw("targetMissing")

\* The planned steps of p whose migration has no backward action.
WithoutDown(p) ==
  {i \in 1..Len(results[p]) :
     /\ results[p][i].direction = "Down"
     /\ results[p][i].migrationName \notin hasDown}

C12_NotExecutedOnlyAfterError ==
  \A p \in Procs :
    out[p].rs.hasResults =>
      LET res == out[p].rs.results
      IN /\ \A i \in 1..Len(res) :
              res[i].status = "NotExecuted" =>
                \E j \in 1..(i - 1) : res[j].status = "Error"
         /\ out[p].rs.error = "none" =>
              \A i \in 1..Len(res) : res[i].status = "Success"

\* C13: migrateToLatest is idempotent.  A migrateToLatest that returns
\* without error leaves every migration of its list recorded; a
\* migrateToLatest that finds every migration of its list recorded plans
\* nothing, invokes nothing, leaves ledger and schema as they are and
\* returns empty results without error, unless the release of the lock or
\* the commit of this very call fails.
C13_LatestIdempotent ==
  [][\A p \in Procs :
       Returns(p) /\ op[p].kind = "latest" =>
         /\ out'[p].rs.error = "none" => ledger' = Range(migrations[p])
         /\ Len(migrations[p]) > 0 /\ executed[p] = migrations[p] =>
              /\ results[p] = <<>>
              /\ invoked[p] = {} /\ wrote[p] = {}
              /\ ledger' = ledger /\ schema' = schema
              /\ \/ out'[p].rs = ResultsOnly(<<>>)
                 \/ out'[p].rs.error \in {"releaseLock", "commit"}]_vars

\* A migrateToLatest over three migrations that are all recorded is about
\* to return empty results.
C13_Witness ==
  \E p \in Procs :
    /\ pc[p] = "end" /\ op[p].kind = "latest"
    /\ migrations[p] = <<1, 2, 3>> /\ executed[p] = <<1, 2, 3>>
    /\ ledger = {1, 2, 3}
    /\ comp[p] = Return(ResultsOnly(<<>>))

\* The run of p has read a valid state of a list that is not empty and has
\* planned.
HasPlanned(p) ==
  /\ pc[p] \in {"action", "write", "release", "end"}
  /\ Len(migrations[p]) > 0
  /\ IsPrefix(executed[p], migrations[p])

\* The run of p found nothing to do and changes nothing.
NothingToDo(p) ==
  /\ results[p] = <<>>
  /\ invoked[p] = {} /\ wrote[p] = {}
  /\ ledger = Range(executed[p])
  /\ pc[p] = "release" => comp[p] = Return(ResultsOnly(<<>>))
  /\ pc[p] = "end" => comp[p] \in {Return(ResultsOnly(<<>>)), Throw("releaseLock")}

\* C14: migrateUp plans the one migration after the current index and
\* migrateDown the one at the current index, so the ledger never grows
\* beyond the list nor changes by more than one row; at the boundary
\* (current index length-1 for migrateUp, -1 for migrateDown) the run
\* plans nothing, returns empty results and leaves the ledger unchanged.
C14_OneStepBounded ==
  \A p \in Procs :
    HasPlanned(p) /\ op[p].kind \in {"up", "down"} =>
      LET migs == migrations[p]
          cur == currentIndex[p]
      IN /\ Len(results[p]) <= 1
         /\ LedgerView(p) \subseteq Range(migs)
         /\ Cardinality(LedgerView(p)) \in (Len(executed[p]) - 1)..(Len(executed[p]) + 1)
         /\ op[p].kind = "up" =>
              IF cur = Len(migs) - 1 THEN NothingToDo(p)
              ELSE /\ Len(results[p]) = 1
                   /\ results[p][1].migrationName = migs[cur + 2]
                   /\ results[p][1].direction = "Up"
         /\ op[p].kind = "down" =>
              IF cur = -1 THEN NothingToDo(p)
              ELSE /\ Len(results[p]) = 1
                   /\ results[p][1].migrationName = migs[cur + 1]
                   /\ results[p][1].direction = "Down"

\* migrateUp with all three migrations recorded returns empty results.
C14_Witness ==
  \E p \in Procs :
    /\ pc[p] = "end" /\ op[p].kind = "up"
    /\ migrations[p] = <<1, 2, 3>> /\ currentIndex[p] = 2
    /\ ledger = {1, 2, 3}
    /\ comp[p] = Return(ResultsOnly(<<>>))

\* C15: migrateTo(NO_MIGRATIONS) on a ledger that records every migration
\* of the list, each with a backward action, returning without error:
\* the results are one Success Down per migration, the last name first,
\* and the ledger is empty afterwards.
C15_DownToSentinel ==
  [][\A p \in Procs :
       /\ Returns(p)
       /\ op[p] = [kind |-> "to", target |-> NO_MIGRATIONS]
       /\ Len(migrations[p]) > 0 /\ executed[p] = migrations[p]
       /\ Range(migrations[p]) \subseteq hasDown
       /\ out'[p].rs.error = "none"
       => /\ out'[p].rs =
               ResultsOnly([n \in 1..Len(migrations[p]) |->
                              Result(migrations[p][Len(migrations[p]) - n + 1],
                                     "Down", "Success")])
          /\ ledger' = {}]_vars

\* Three migrations were reverted, c then b then a, and nothing is recorded.
C15_Witness ==
  \E p \in Procs :
    /\ pc[p] = "idle"
    /\ out[p].rs = ResultsOnly(<<Result(3, "Down", "Success"),
                                  Result(2, "Down", "Success"),
                                  Result(1, "Down", "Success")>>)
    /\ ledger = {}

\* C16: a migrateToLatest that returns without error started from a ledger
\* that is a prefix of its list, invoked the forward action of exactly the
\* migrations not yet recorded and returns one Success Up for each of them
\* in ascending order; afterwards the ledger holds every migration of the
\* list and the current index is length-1.
C16_LatestRunsTheRest ==
  [][\A p \in Procs :
       Returns(p) /\ op[p].kind = "latest" /\ out'[p].rs.error = "none" =>
         LET migs == migrations[p]
             done == Len(executed[p])
         IN /\ IsPrefix(executed[p], migs)
            /\ out'[p].rs =
                 ResultsOnly([n \in 1..(Len(migs) - done) |->
                                Result(migs[done + n], "Up", "Success")])
            /\ invoked[p] = Range(migs) \ Range(executed[p])
            /\ ledger' = Range(migs)
            /\ CurrentIndexOf(migs, SortSet(ledger')) = Len(migs) - 1]_vars

\* With a recorded, migrateToLatest ran b and c in that order.
C16_Witness ==
  \E p \in Procs :
    /\ pc[p] = "idle"
    /\ out[p].rs = ResultsOnly(<<Result(2, "Up", "Success"),
                                  Result(3, "Up", "Success")>>)
    /\ ledger = {1, 2, 3}

\* C17: the plan of a run with target index t and current index cur.  For
\* t > cur it is the migrations at indices cur+1..t in ascending order, all
\* Up; for t < cur those at indices cur down to t+1 in descending order,
\* all Down, the migration at t being neither planned nor invoked and
\* still recorded; for t = cur nothing is planned and the run returns
\* empty results.  The target of migrateTo(name) is the index of name.
C17_PlanFollowsTarget ==
  \A p \in Procs :
    LET migs == migrations[p]
        cur == currentIndex[p]
        res == results[p]
        target == GetTargetMigration(op[p], migs, cur)
        t == target.index
    IN HasPlanned(p) /\ ~target.throws =>
         /\ op[p].kind = "to" /\ op[p].target # NO_MIGRATIONS => migs[t + 1] = op[p].target
         /\ t > cur =>
              /\ Len(res) = t - cur
              /\ \A n \in 1..Len(res) :
                   /\ res[n].migrationName = migs[(cur + n) + 1]
                   /\ res[n].direction = "Up"
         /\ t < cur =>
              /\ Len(res) = cur - t
              /\ \A n \in 1..Len(res) :
                   /\ res[n].migrationName = migs[(cur - n + 1) + 1]
                   /\ res[n].direction = "Down"
              /\ t >= 0 => /\ migs[t + 1] \notin invoked[p] \cup wrote[p]
                            /\ migs[t + 1] \in LedgerView(p)
         /\ t = cur => NothingToDo(p)

\* migrateTo the first of three recorded migrations reverted the third and
\* the second and left the first.
C17_Witness ==
  \E p \in Procs :
    /\ pc[p] = "end"
    /\ op[p] = [kind |-> "to", target |-> 1]
    /\ migrations[p] = <<1, 2, 3>> /\ currentIndex[p] = 2
    /\ results[p] = <<Result(3, "Down", "Success"), Result(2, "Down", "Success")>>
    /\ 1 \notin invoked[p] /\ 1 \in LedgerView(p)

\* The bootstrap of the call of p is over and `run` is next or running.
BootstrapDone(p) ==
  pc[p] \in {"begin", "acquire", "getState", "plan", "action", "write",
              "release", "end"}

\* C18: the bootstrap tolerates concurrent creators.  The lock table never
\* holds more than one row and a table that exists stays; whenever a call
\* is past its bootstrap both tables exist and the lock row is there; a
\* call returns the error of a creation or of the lock-row insert only
\* when its re-check found the table or the row absent, and goes on when
\* the re-check finds it.
C18_BootstrapToleratesRaces ==
  [][/\ lockRows' <= 1
     /\ tableExists => tableExists'
     /\ lockTableExists => lockTableExists'
     /\ \A p \in Procs :
          /\ BootstrapDone(p)' =>
               tableExists' /\ lockTableExists' /\ lockRows' = 1
          /\ Returns(p) /\ out'[p].rs.error = "createTable" =>
               pc[p] = "rechkTable" /\ ~tableExists
          /\ Returns(p) /\ out'[p].rs.error = "createLockTable" =>
               pc[p] = "rechkLockTable" /\ ~lockTableExists
          /\ Returns(p) /\ out'[p].rs.error = "insertLockRow" =>
               pc[p] = "rechkRow" /\ lockRows = 0
          /\ pc[p] = "rechkTable" /\ pc'[p] # pc[p] /\ tableExists =>
               pc'[p] = "chkLockTable" \/ out'[p].rs.error = "introspection"
          /\ pc[p] = "rechkLockTable" /\ pc'[p] # pc[p] /\ lockTableExists =>
               pc'[p] = "chkRow" \/ out'[p].rs.error = "introspection"
          /\ pc[p] = "rechkRow" /\ pc'[p] # pc[p] /\ lockRows > 0 =>
               pc'[p] = "begin" \/ out'[p].rs.error = "selectLockRow"]_vars

\* The insert of one process failed because another process, now past its
\* bootstrap, had inserted the lock row.
C18_Witness ==
  \E p, q \in Procs :
    /\ p # q
    /\ pc[p] = "rechkRow" /\ pc[q] = "acquire"
    /\ tableExists /\ lockTableExists /\ lockRows = 1

\* p takes the step it is at.
Steps(p, l) == pc[p] = l /\ pc'[p] # l

\* C19: a run issues its ledger inserts and deletes, and makes them
\* visible, only while it holds the migration lock inside its locked
\* region or, with a transaction, at the commit that ends the lock; the
\* tables and the lock row come into being only by the bootstrap's
\* creations and insert.
C19_WritesUnderLock ==
  [][/\ \A p \in Procs :
          pc[p] = "write" => lockHolder = p /\ InLockedRegion(p)
     /\ ledger' # ledger =>
          \E p \in Procs :
            /\ lockHolder = p /\ acquired[p]
            /\ Steps(p, "write") \/ (UseTransaction /\ Steps(p, "end"))
     /\ tableExists' # tableExists => \E p \in Procs : Steps(p, "crtTable")
     /\ lockTableExists' # lockTableExists => \E p \in Procs : Steps(p, "crtLockTable")
     /\ lockRows' # lockRows => \E p \in Procs : Steps(p, "insRow")]_vars

\* One run has recorded the first migration and is about to record the
\* second while the other process is still in its bootstrap.
C19_Witness ==
  \E p, q \in Procs :
    /\ p # q
    /\ pc[p] = "write" /\ lockHolder = p
    /\ results[p][idx[p] + 1] = Result(2, "Up", "NotExecuted")
    /\ 1 \in LedgerView(p)
    /\ pc[q] = "chkRow"

\* C20: a call that started from a ledger that is a prefix of its sorted
\* migration list leaves a ledger that is a prefix of that list, whatever
\* the operation, the failures, the backward actions and the adapter.
C20_PrefixPreserved ==
  [][\A p \in Procs :
       Returns(p) /\ HasPlanned(p) =>
         IsPrefix(SortSet(ledger'), migrations[p])]_vars

\* C21: a run has called releaseMigrationLock only if its own
\* acquireMigrationLock completed successfully before; a run whose
\* acquisition failed never calls release.
C21_ReleaseOnlyAfterAcquire ==
  \A p \in Procs : relCalled[p] => acquired[p]

====
